---- MODULE Spec2Model ----
(***************************************************************************)
(* TrajectoryProxy (src/unnamed/part_005): a two-tier chunk cache in front *)
(* of a remote trajectory data source.  Tier 1 is a count-bounded LRUCache *)
(* of decoded chunks, tier 2 is an LRUCache index of sizes plus an         *)
(* idb-keyval store holding the chunk blobs.                               *)
(*                                                                         *)
(* JavaScript runs every handler to its next await without interruption,   *)
(* so one action is one handler segment: from a call or an I/O completion  *)
(* to the next I/O the code awaits.  Awaits on already settled promises    *)
(* (microtasks) are folded into the segment that settles them.             *)
(*                                                                         *)
(* The idb-keyval store runs each get/set in its own IndexedDB transaction *)
(* on one object store; IndexedDB serialises them in creation order, so    *)
(* the store is a FIFO queue of requests, each of which may fail.          *)
(***************************************************************************)
EXTENDS Integers, Sequences, FiniteSets, TLC

\* ---- the data source and the constructor options of the modelled run ----
FrameCount == 5                  \* metadata.frameCount of the remote trajectory
SmallFrameBytes == 48            \* coords.byteLength + box.byteLength, 3 atoms
LargeFrameBytes == 120           \* a frame larger than the target chunk size
targetChunkSizeInBytes == 100
l1CacheSizeInChunks == 2
l2CacheSizeInBytes == 200

\* ---- bounds of the exploration ----
MaxInits == 3                    \* init() calls of a run that exercises init
MaxCalls == 2                    \* getFrame() calls of a run that exercises the cache
MaxReliableCalls == 3            \* getFrame() calls of a run over I/O that never fails
MaxFetches == 3                  \* miss resolutions started
MaxFailures == 2                 \* I/O operations that fail
MaxKey == 3                      \* keys given to an LRUCache exercised on its own
MaxCapacity == 2                 \* largest capacity of that LRUCache
MaxUses == 4                     \* get hits and set calls made on it
MaxRecords == 2                  \* length-prefixed records of a decoded container
MaxCoords == 3                   \* coordinate values of an encoded frame
MaxFrameCount == 12              \* frame counts the chunk arithmetic is tried on
MaxFramesPerChunk == 6           \* chunk lengths the chunk arithmetic is tried on

Null == -1                       \* null / undefined of a numeric field
Infinity == 1000000              \* the capacity given to the tier-2 LRUCache

\* What the client does in one run: one init() and up to MaxCalls getFrame()
\* calls, or up to MaxInits init() calls and one getFrame() call; fetches is
\* the number of miss resolutions the run is followed through.
Profiles ==
    {[inits |-> 1, calls |-> MaxCalls, fetches |-> MaxFetches],
     [inits |-> MaxInits, calls |-> 1, fetches |-> MaxFetches]}

\* a prefetch and a demand fetch for every getFrame() call: a run followed
\* through this many miss resolutions is never cut short
AllFetches == 2 * MaxCalls

VARIABLES
    srcFrameBytes,           \* byte size of every frame the source serves
    srcMeta,                 \* "valid": metadata has frameCount; "nofc": it has none
    run,                     \* the client's profile, an element of Profiles
    metadata,                \* "null" | "valid" | "nofc"
    frameSizeInBytes,        \* Null or bytes
    framesPerChunk,          \* Null or frames
    isTransparent,
    lastRequestedChunkIndex, \* Null or chunk index
    l1Cache,                 \* LRU list, head (most recent) first: [key, value]
    l2Cache,                 \* LRU list, head first: [key, value = size]
    l2Store,                 \* chunk index -> stored chunk, << >> when absent
    l2CurrentSizeInBytes,
    pendingFetches,          \* chunk index -> fetch id, 0 when absent
    inits,                   \* init() calls: sequence of states
    calls,                   \* getFrame() calls: sequence of records
    fetches,                 \* miss resolutions (fetchPromise): sequence of records
    storeQueue,              \* issued, not yet completed store requests
    metaAssigns,             \* history: assignments to this.metadata
    srcCalls,                \* history: chunk index -> getFrames calls for its range
    durable,                 \* history: chunks written to / read back from the store
    failures,                \* history: failed I/O operations
    srcLog,                  \* history: the data-source calls issued, in order
    readyInits,              \* history: init() calls made after init() had succeeded
    lru,                     \* one LRUCache object on its own: map, links, head, tail
    lruHist,                 \* history of the calls made on that LRUCache
    codecIn,                 \* a response buffer given to a decoder of the data source
    codecOut,                \* what the decoder returned or threw
    idx                      \* a frame count, a chunk length and a located frame

cfgVars == <<srcFrameBytes, srcMeta, run>>
initVars == <<metadata, frameSizeInBytes, framesPerChunk, isTransparent>>
tierVars == <<l1Cache, l2Cache, l2Store, l2CurrentSizeInBytes, pendingFetches>>
histVars == <<metaAssigns, srcCalls, durable, failures, srcLog, readyInits>>
proxyVars == <<srcFrameBytes, srcMeta, run, metadata, frameSizeInBytes,
               framesPerChunk, isTransparent, lastRequestedChunkIndex, l1Cache,
               l2Cache, l2Store, l2CurrentSizeInBytes, pendingFetches, inits, calls,
               fetches, storeQueue, metaAssigns, srcCalls, durable, failures,
               srcLog, readyInits>>
lruVars == <<lru, lruHist>>
\* the variables of the components that are exercised on their own
codecVars == <<codecIn, codecOut>>
indexVars == <<idx>>
auxVars == <<lruVars, codecVars, indexVars>>
vars == <<proxyVars, auxVars>>

\* ---- arithmetic of the code ----
Min(a, b) == IF a < b THEN a ELSE b
Max(a, b) == IF a > b THEN a ELSE b
\* Math.ceil(a / b) for a >= 0, b >= 1
CeilDiv(a, b) == (a + b - 1) \div b

\* Every chunk index the model can name (framesPerChunk >= 1).
Chunks == 0 .. FrameCount

\* ---- LRUCache (Map + doubly linked list), as the list from head to tail ----
LRUHas(cache, key) == \E i \in 1 .. Len(cache) : cache[i].key = key

LRUIndex(cache, key) == CHOOSE i \in 1 .. Len(cache) : cache[i].key = key

LRUValue(cache, key) == cache[LRUIndex(cache, key)].value

\* removeNode: unlink the node of a key
RemoveNode(cache, key) ==
    SelectSeq(cache, LAMBDA n : n.key # key)

\* moveToHead: removeNode then addToHead
MoveToHead(cache, key) ==
    <<cache[LRUIndex(cache, key)]>> \o RemoveNode(cache, key)

\* a variant of get that leaves the list as it is
LRUGetNoTouch(cache, key) == cache

\* get: a hit moves the node to the head; a miss changes nothing
LRUGet(cache, key) ==
    IF LRUHas(cache, key) THEN MoveToHead(cache, key) ELSE cache

\* set: returns the new list and the evicted node (<< >> when none)
LRUSet(cache, key, value, capacity) ==
    IF LRUHas(cache, key)
    THEN [cache |-> <<[key |-> key, value |-> value]>> \o RemoveNode(cache, key),
          evicted |-> << >>]
    ELSE LET added == <<[key |-> key, value |-> value]>> \o cache
         IN IF Len(added) > capacity
            THEN [cache |-> SubSeq(added, 1, Len(added) - 1),
                  evicted |-> <<added[Len(added)]>>]
            ELSE [cache |-> added, evicted |-> << >>]

LRUKeys(cache) == {cache[i].key : i \in 1 .. Len(cache)}

\* ---- LRUCache as the code builds it: a Map and a doubly linked list ----
\* One LRUNode exists per key of the Map, so a node is named by its key; Null
\* is the null link.  The fields of a node whose key has left the Map are
\* those of an unreachable object.
Keys == 1 .. MaxKey

\* new LRUCache(capacity)
NewCache(capacity) ==
    [capacity |-> capacity, cache |-> {}, head |-> Null, tail |-> Null,
     value |-> [k \in Keys |-> Null],
     prev |-> [k \in Keys |-> Null],
     next |-> [k \in Keys |-> Null]]

\* a variant that does not link the old head back to the new node
addToHeadOneWay(c, node) ==
    LET c1 == [c EXCEPT !.next[node] = c.head, !.prev[node] = Null]
        c3 == [c1 EXCEPT !.head = node]
    IN IF c3.tail = Null THEN [c3 EXCEPT !.tail = node] ELSE c3

addToHead(c, node) ==
    LET c1 == [c EXCEPT !.next[node] = c.head, !.prev[node] = Null]
        c2 == IF c1.head # Null THEN [c1 EXCEPT !.prev[c1.head] = node] ELSE c1
        c3 == [c2 EXCEPT !.head = node]
    IN IF c3.tail = Null THEN [c3 EXCEPT !.tail = node] ELSE c3

removeNode(c, node) ==
    LET c1 == IF c.prev[node] # Null
              THEN [c EXCEPT !.next[c.prev[node]] = c.next[node]]
              ELSE [c EXCEPT !.head = c.next[node]]
    IN IF c1.next[node] # Null
       THEN [c1 EXCEPT !.prev[c1.next[node]] = c1.prev[node]]
       ELSE [c1 EXCEPT !.tail = c1.prev[node]]

moveToHead(c, node) == addToHead(removeNode(c, node), node)

\* returns the cache and the evicted entry (<< >> for undefined)
evictTail(c) ==
    IF c.tail # Null
    THEN [c |-> [removeNode(c, c.tail) EXCEPT !.cache = @ \ {c.tail}],
          evicted |-> <<[key |-> c.tail, value |-> c.value[c.tail]]>>]
    ELSE [c |-> c, evicted |-> << >>]

\* a variant of get that returns the value without touching the list
CacheGetNoTouch(c, key) ==
    [c |-> c, value |-> IF key \in c.cache THEN c.value[key] ELSE Null]

\* get(key): returns the cache and the value (Null for undefined)
CacheGet(c, key) ==
    IF key \in c.cache
    THEN [c |-> moveToHead(c, key), value |-> c.value[key]]
    ELSE [c |-> c, value |-> Null]

\* set(key, value): returns the cache and the evicted entry
CacheSet(c, key, value) ==
    IF key \in c.cache
    THEN [c |-> moveToHead([c EXCEPT !.value[key] = value], key), evicted |-> << >>]
    ELSE LET node == [c EXCEPT !.value[key] = value, !.prev[key] = Null,
                               !.next[key] = Null, !.cache = @ \cup {key}]
             added == addToHead(node, key)
         IN IF Cardinality(added.cache) > added.capacity
            THEN evictTail(added)
            ELSE [c |-> added, evicted |-> << >>]

CacheHas(c, key) == key \in c.cache

\* History of the calls made on the cache: clock counts the get hits and the
\* set calls; stamp[k] is the clock of the latest get hit or set of key k and
\* born[k] that of its latest insertion; last is the latest call with what it
\* returned; list is the same calls applied to the list of a cache from head
\* to tail (LRUGet, LRUSet).
NewHist ==
    [clock |-> 0, stamp |-> [k \in Keys |-> 0], born |-> [k \in Keys |-> 0],
     last |-> [op |-> "none", key |-> Null, hit |-> FALSE, evicted |-> << >>],
     list |-> << >>]

\* the LRUCache left alone while the proxy runs
LruIdle ==
    /\ lru = NewCache(1)
    /\ lruHist = NewHist

\* ---- the decoders and the chunk arithmetic, left alone ----
NoInput ==
    [kind |-> "none", records |-> << >>, tail |-> << >>, frame |-> << >>,
     header |-> << >>, bytes |-> << >>]

NoOutput == [op |-> "none", ok |-> TRUE, err |-> "none", frames |-> << >>]

CodecIdle ==
    /\ codecIn = NoInput
    /\ codecOut = NoOutput

NoLocation ==
    [frameCount |-> 0, framesPerChunk |-> 0, frame |-> Null, chunk |-> Null,
     offset |-> Null, start |-> Null, end |-> Null]

IndexIdle == idx = NoLocation

\* ---- the data source ----
\* getFrames(start, end) of a source that serves exactly frames start..end-1;
\* a frame is named by its index.
SourceFrames(start, end) == [i \in 1 .. (end - start) |-> start + i - 1]

TypeOK ==
    /\ srcFrameBytes \in {SmallFrameBytes, LargeFrameBytes}
    /\ srcMeta \in {"valid", "nofc"}
    /\ metadata \in {"null", "valid", "nofc"}
    /\ isTransparent \in BOOLEAN
    /\ run.inits \in 1 .. MaxInits
    /\ Len(inits) <= run.inits
    /\ Len(calls) <= run.calls
    /\ Len(fetches) <= run.fetches

\* the proxy after construction, in front of any of the modelled sources
ProxyInit ==
    /\ srcFrameBytes \in {SmallFrameBytes, LargeFrameBytes}
    /\ srcMeta \in {"valid", "nofc"}
    /\ srcMeta = "nofc" => srcFrameBytes = SmallFrameBytes
    /\ metadata = "null"
    /\ frameSizeInBytes = Null
    /\ framesPerChunk = Null
    /\ isTransparent = FALSE
    /\ lastRequestedChunkIndex = Null
    /\ l1Cache = << >>
    /\ l2Cache = << >>
    /\ l2Store = [c \in Chunks |-> << >>]
    /\ l2CurrentSizeInBytes = 0
    /\ pendingFetches = [c \in Chunks |-> 0]
    /\ inits = << >>
    /\ calls = << >>
    /\ fetches = << >>
    /\ storeQueue = << >>
    /\ metaAssigns = 0
    /\ srcCalls = [c \in Chunks |-> 0]
    /\ durable = {}
    /\ failures = 0
    /\ srcLog = << >>
    /\ readyInits = 0

\* the proxy left alone while a component is exercised on its own
ProxyIdle ==
    /\ ProxyInit
    /\ srcFrameBytes = SmallFrameBytes
    /\ srcMeta = "valid"
    /\ run = [inits |-> 1, calls |-> MaxCalls, fetches |-> MaxFetches]

Init ==
    /\ ProxyInit
    /\ run \in Profiles
    /\ LruIdle
    /\ CodecIdle
    /\ IndexIdle

\* ---- the calls made on the data source (entries of srcLog) ----
GetMetadataCall == [op |-> "getMetadata", start |-> Null, end |-> Null]

GetFramesCall(start, end) == [op |-> "getFrames", start |-> start, end |-> end]

\* ---- init() ----
\* a variant of init() without the guard of its first line
InitNeverReturnsEarly == FALSE

\* if (this.metadata) return;
InitReturnsEarly == metadata # "null"

\* init() up to its first await: it returns at once, or dataSource.getMetadata()
\* is issued
InitCall ==
    /\ Len(inits) < run.inits
    /\ inits' = Append(inits, IF InitReturnsEarly THEN "done" ELSE "waitMeta")
    /\ srcLog' = IF InitReturnsEarly THEN srcLog ELSE Append(srcLog, GetMetadataCall)
    /\ readyInits' = IF frameSizeInBytes # Null THEN readyInits + 1 ELSE readyInits
    /\ UNCHANGED <<auxVars, cfgVars, initVars, lastRequestedChunkIndex, tierVars, calls,
                   fetches, storeQueue, metaAssigns, srcCalls, durable, failures>>

\* getMetadata() rejects: init() fails, nothing is assigned
InitMetaRejected(t) ==
    /\ inits[t] = "waitMeta"
    /\ failures < MaxFailures
    /\ failures' = failures + 1
    /\ inits' = [inits EXCEPT ![t] = "failed"]
    /\ UNCHANGED <<auxVars, cfgVars, initVars, lastRequestedChunkIndex, tierVars, calls,
                   fetches, storeQueue, metaAssigns, srcCalls, durable, srcLog,
                   readyInits>>

\* getMetadata() resolves: this.metadata is assigned; without a numeric
\* frameCount init() throws, otherwise dataSource.getFrames(0, 1) is issued
InitMetaResolved(t) ==
    /\ inits[t] = "waitMeta"
    /\ metadata' = srcMeta
    /\ metaAssigns' = metaAssigns + 1
    /\ inits' = [inits EXCEPT ![t] = IF srcMeta = "valid" THEN "waitFirst" ELSE "failed"]
    /\ srcLog' = IF srcMeta = "valid" THEN Append(srcLog, GetFramesCall(0, 1)) ELSE srcLog
    /\ UNCHANGED <<auxVars, cfgVars, frameSizeInBytes, framesPerChunk, isTransparent,
                   lastRequestedChunkIndex, tierVars, calls, fetches, storeQueue,
                   srcCalls, durable, failures, readyInits>>

\* getFrames(0, 1) rejects or resolves with an empty array: init() throws
InitFirstFailed(t) ==
    /\ inits[t] = "waitFirst"
    /\ failures < MaxFailures
    /\ failures' = failures + 1
    /\ inits' = [inits EXCEPT ![t] = "failed"]
    /\ UNCHANGED <<auxVars, cfgVars, initVars, lastRequestedChunkIndex, tierVars, calls,
                   fetches, storeQueue, metaAssigns, srcCalls, durable, srcLog,
                   readyInits>>

\* Math.max(1, Math.floor(targetChunkSizeInBytes / frameSizeInBytes))
FramesPerChunkOf(frameBytes) == Max(1, targetChunkSizeInBytes \div frameBytes)

\* a variant that always chunks
TransparentNever(frameBytes) == FALSE

\* this.frameSizeInBytes > this.targetChunkSizeInBytes
TransparentFor(frameBytes) == frameBytes > targetChunkSizeInBytes

\* getFrames(0, 1) resolves with a frame: the frame size is measured and the
\* mode chosen
InitFirstResolved(t) ==
    /\ inits[t] = "waitFirst"
    /\ frameSizeInBytes' = srcFrameBytes
    /\ IF TransparentFor(srcFrameBytes)
       THEN isTransparent' = TRUE /\ UNCHANGED framesPerChunk
       ELSE framesPerChunk' = FramesPerChunkOf(srcFrameBytes) /\ UNCHANGED isTransparent
    /\ inits' = [inits EXCEPT ![t] = "done"]
    /\ UNCHANGED <<auxVars, cfgVars, metadata, lastRequestedChunkIndex, tierVars, calls,
                   fetches, storeQueue, histVars>>

InitStep ==
    \/ InitCall
    \/ \E t \in 1 .. Len(inits) :
          \/ InitMetaRejected(t)
          \/ InitMetaResolved(t)
          \/ InitFirstFailed(t)
          \/ InitFirstResolved(t)

\* ---- chunk indexing (getFrame, getOrFetchChunk, prefetchNextChunk) ----
\* the expressions of the code, for any chunk length and frame count
\* Math.floor(frameIndex / framesPerChunk)
ChunkIndexOf(frameIndex, perChunk) == frameIndex \div perChunk

\* frameIndex % framesPerChunk
FrameOffsetOf(frameIndex, perChunk) == frameIndex % perChunk

\* chunkIndex * this.framesPerChunk
RangeStart(chunkIndex, perChunk) == chunkIndex * perChunk

\* Math.min((chunkIndex + 1) * this.framesPerChunk, this.getFrameCount())
RangeEnd(chunkIndex, perChunk, count) == Min((chunkIndex + 1) * perChunk, count)

\* a variant that rounds the number of chunks down
TotalChunksFloor(count, perChunk) == count \div perChunk

\* Math.ceil(this.getFrameCount() / this.framesPerChunk)
TotalChunksOf(count, perChunk) == CeilDiv(count, perChunk)

\* the same with the fields of the proxy
ChunkOf(frameIndex) == ChunkIndexOf(frameIndex, framesPerChunk)

\* a variant that indexes the chunk with the global frame index
OffsetWithoutModulo(frameIndex) == frameIndex

OffsetOf(frameIndex) == FrameOffsetOf(frameIndex, framesPerChunk)

TotalChunks == TotalChunksOf(FrameCount, framesPerChunk)

ChunkStart(chunkIndex) == RangeStart(chunkIndex, framesPerChunk)

ChunkEnd(chunkIndex) == RangeEnd(chunkIndex, framesPerChunk, FrameCount)

\* chunk[frameOffset]: Null stands for undefined (offset past the array)
FrameAt(chunk, frameIndex) ==
    IF OffsetOf(frameIndex) + 1 <= Len(chunk) THEN chunk[OffsetOf(frameIndex) + 1] ELSE Null

\* ---- sync getters and the guard of getFrame ----
GetMetadataThrows == metadata = "null"

GetFrameCountThrows == metadata = "null"

\* !this.metadata || this.framesPerChunk === null && !this.isTransparent
GetFrameNotInitialized ==
    metadata = "null" \/ (framesPerChunk = Null /\ ~isTransparent)

\* a variant whose upper bound is inclusive
OutOfBoundsInclusive(frameIndex) == frameIndex < 0 \/ frameIndex > FrameCount

\* frameIndex < 0 || frameIndex >= this.getFrameCount()
OutOfBounds(frameIndex) == frameIndex < 0 \/ frameIndex >= FrameCount

\* ---- records ----
\* History: the failed miss resolution that a getFrame(frame) arriving now is
\* the next request after, 0 when there is none: the latest resolution of its
\* chunk, failed, with no request for the chunk made since.
FailedBefore(frame) ==
    IF framesPerChunk = Null \/ frame < 0 \/ frame >= FrameCount THEN 0
    ELSE LET c == frame \div framesPerChunk
             fs == {g \in 1 .. Len(fetches) : fetches[g].chunk = c}
             last == CHOOSE g \in fs : \A h \in fs : h <= g
         IN IF /\ fs # {}
               /\ fetches[last].st = "err"
               /\ \A k \in 1 .. Len(calls) : calls[k].retry # last
            THEN last ELSE 0

\* a getFrame call: st "storeGet" | "fetch" | "direct" | "ok" | "err";
\* f: the fetchPromise it waits on, ef: the fetchPromise its error comes from.
\* History fields: arr, the miss resolution in flight for its chunk when it
\* arrived; pf, the prefetch it started; via, the tier that served it ("l1",
\* "l2", or "src" for a fetchPromise); retry, the failed miss resolution of its
\* chunk that it is the next request after (FailedBefore).
NewCall(frame, st, f, val, err, arr, pf) ==
    [frame |-> frame, st |-> st, f |-> f, val |-> val, err |-> err, ef |-> 0,
     arr |-> arr, pf |-> pf, via |-> IF st = "ok" THEN "l1" ELSE "none",
     retry |-> FailedBefore(frame)]

\* The promises that settle with a fetchPromise, and whether a rejection
\* handler is attached to each: the promise returned by getOrFetchChunk, which
\* getFrame awaits (line 217) or prefetchNextChunk gives a catch (line 308),
\* and the promise returned by fetchPromise.finally(...) (line 263), which is
\* dropped.  The fetchPromise itself has the finally callback as its handler.
DerivedPromises(origin) ==
    {[promise |-> IF origin = "prefetch" THEN "prefetch" ELSE "getFrame",
      handled |-> TRUE],
     [promise |-> "finally", handled |-> FALSE]}

\* the derived promises that reject with no handler when the fetchPromise
\* rejects
UnhandledRejections(origin) ==
    {p.promise : p \in {q \in DerivedPromises(origin) : ~q.handled}}

\* a fetchPromise: st "source" | "del1" | "store" | "del2" | "ok" | "err";
\* before: l2CurrentSizeInBytes when its addChunkToL2 was entered (history);
\* unhandled: the promises its failure rejected with no handler (history)
NewFetch(chunkIndex, origin) ==
    [chunk |-> chunkIndex, origin |-> origin, st |-> "source", data |-> << >>,
     err |-> "none", before |-> Null, unhandled |-> {}]

\* a variant of the registry lookup that never finds an entry
PendingFetchesHasNever(pending, chunkIndex) == FALSE

\* this.pendingFetches.has(chunkIndex)
PendingFetchesHas(pending, chunkIndex) == pending[chunkIndex] # 0

\* a variant of prefetchNextChunk without the test against the chunk count
PrefetchStartsPastEnd(chunkIndex) ==
    /\ ~LRUHas(l1Cache, chunkIndex)
    /\ ~LRUHas(l2Cache, chunkIndex)
    /\ pendingFetches[chunkIndex] = 0

\* prefetchNextChunk: the conditions under which it calls getOrFetchChunk
PrefetchStarts(chunkIndex) ==
    /\ chunkIndex < TotalChunks
    /\ ~LRUHas(l1Cache, chunkIndex)
    /\ ~LRUHas(l2Cache, chunkIndex)
    /\ pendingFetches[chunkIndex] = 0

\* a variant whose tier 1 is built without a capacity
AddChunkToL1Unbounded(cache, chunkIndex, chunkData) ==
    LRUSet(cache, chunkIndex, chunkData, Infinity).cache

\* addChunkToL1
AddChunkToL1(cache, chunkIndex, chunkData) ==
    LRUSet(cache, chunkIndex, chunkData, l1CacheSizeInChunks).cache

\* a variant in which getFrame awaits the prefetch it started, so that the
\* failure of the prefetch also rejects the call that triggered it
SettleWaitersAndTrigger(cs, f, ok, data, err) ==
    [k \in 1 .. Len(cs) |->
        IF cs[k].st = "fetch" /\ cs[k].f = f
        THEN IF ok
             THEN [cs[k] EXCEPT !.st = "ok", !.val = FrameAt(data, cs[k].frame)]
             ELSE [cs[k] EXCEPT !.st = "err", !.err = err, !.ef = f]
        ELSE IF cs[k].pf = f /\ ~ok /\ cs[k].st \in {"fetch", "storeGet"}
        THEN [cs[k] EXCEPT !.st = "err", !.err = err, !.ef = f]
        ELSE cs[k]]

\* a variant whose catch block logs the error and does not rethrow it: the
\* fetchPromise resolves with undefined
SettleWaitersSwallowed(cs, f, ok, data, err) ==
    [k \in 1 .. Len(cs) |->
        IF cs[k].st = "fetch" /\ cs[k].f = f
        THEN [cs[k] EXCEPT !.st = "ok",
                           !.val = IF ok THEN FrameAt(data, cs[k].frame) ELSE Null]
        ELSE cs[k]]

\* every call waiting on fetch f settles with the fetch
SettleWaiters(cs, f, ok, data, err) ==
    [k \in 1 .. Len(cs) |->
        IF cs[k].st = "fetch" /\ cs[k].f = f
        THEN IF ok
             THEN [cs[k] EXCEPT !.st = "ok", !.val = FrameAt(data, cs[k].frame),
                                !.via = "src"]
             ELSE [cs[k] EXCEPT !.st = "err", !.err = err, !.ef = f]
        ELSE cs[k]]

\* ---- getFrame(frameIndex) up to its first await ----
GetFrameRejected(frameIndex) ==
    /\ Len(calls) < run.calls
    /\ GetFrameNotInitialized \/ OutOfBounds(frameIndex)
    /\ calls' = Append(calls,
           NewCall(frameIndex, "err", 0, Null,
                   IF GetFrameNotInitialized THEN "notInit" ELSE "range", 0, 0))
    /\ UNCHANGED <<auxVars, cfgVars, initVars, lastRequestedChunkIndex, tierVars, inits,
                   fetches, storeQueue, histVars>>

\* Transparent mode: dataSource.getFrames(frameIndex, frameIndex + 1)
GetFrameTransparent(frameIndex) ==
    /\ Len(calls) < run.calls
    /\ ~GetFrameNotInitialized /\ ~OutOfBounds(frameIndex)
    /\ isTransparent
    /\ calls' = Append(calls, NewCall(frameIndex, "direct", 0, Null, "none", 0, 0))
    /\ srcLog' = Append(srcLog, GetFramesCall(frameIndex, frameIndex + 1))
    /\ UNCHANGED <<auxVars, cfgVars, initVars, lastRequestedChunkIndex, tierVars, inits,
                   fetches, storeQueue, metaAssigns, srcCalls, durable, failures,
                   readyInits>>

\* a variant that attempts the prefetch on every call
CrossedAlways(chunkIndex) == TRUE

\* currentChunkIndex !== this.lastRequestedChunkIndex
CrossedChunk(chunkIndex) == chunkIndex # lastRequestedChunkIndex

\* Chunked mode: the prefetch decision, then getOrFetchChunk up to its await
GetFrameChunked(frameIndex) ==
    /\ Len(calls) < run.calls
    /\ ~GetFrameNotInitialized /\ ~OutOfBounds(frameIndex)
    /\ ~isTransparent
    /\ LET c == ChunkOf(frameIndex)
           pre == CrossedChunk(c) /\ PrefetchStarts(c + 1)
           fetches1 == IF pre THEN Append(fetches, NewFetch(c + 1, "prefetch"))
                       ELSE fetches
           pf == IF pre THEN Len(fetches1) ELSE 0
           pending1 == IF pre THEN [pendingFetches EXCEPT ![c + 1] = pf]
                       ELSE pendingFetches
           src1 == IF pre THEN [srcCalls EXCEPT ![c + 1] = @ + 1] ELSE srcCalls
           log1 == IF pre
                   THEN Append(srcLog, GetFramesCall(ChunkStart(c + 1), ChunkEnd(c + 1)))
                   ELSE srcLog
           arr == pendingFetches[c]
       IN /\ lastRequestedChunkIndex' = c
          /\ IF LRUHas(l1Cache, c)
             THEN \* L1 hit
                  /\ l1Cache' = LRUGet(l1Cache, c)
                  /\ calls' = Append(calls,
                        NewCall(frameIndex, "ok", 0,
                                FrameAt(LRUValue(l1Cache, c), frameIndex), "none", arr, pf))
                  /\ fetches' = fetches1
                  /\ pendingFetches' = pending1
                  /\ srcCalls' = src1
                  /\ srcLog' = log1
                  /\ UNCHANGED storeQueue
             ELSE IF LRUHas(l2Cache, c)
             THEN \* L2 index hit: get(chunkIndex, l2Store) is issued
                  /\ storeQueue' = Append(storeQueue,
                        [op |-> "get", key |-> c, who |-> Len(calls) + 1])
                  /\ calls' = Append(calls,
                        NewCall(frameIndex, "storeGet", 0, Null, "none", arr, pf))
                  /\ fetches' = fetches1
                  /\ pendingFetches' = pending1
                  /\ srcCalls' = src1
                  /\ srcLog' = log1
                  /\ UNCHANGED l1Cache
             ELSE IF PendingFetchesHas(pending1, c)
             THEN \* join the pending fetch
                  /\ calls' = Append(calls,
                        NewCall(frameIndex, "fetch", pending1[c], Null, "none", arr, pf))
                  /\ fetches' = fetches1
                  /\ pendingFetches' = pending1
                  /\ srcCalls' = src1
                  /\ srcLog' = log1
                  /\ UNCHANGED <<l1Cache, storeQueue>>
             ELSE \* miss: dataSource.getFrames(start, end) is issued
                  /\ Len(fetches1) < run.fetches
                  /\ fetches' = Append(fetches1, NewFetch(c, "demand"))
                  /\ pendingFetches' = [pending1 EXCEPT ![c] = Len(fetches1) + 1]
                  /\ srcCalls' = [src1 EXCEPT ![c] = @ + 1]
                  /\ srcLog' = Append(log1, GetFramesCall(ChunkStart(c), ChunkEnd(c)))
                  /\ calls' = Append(calls,
                        NewCall(frameIndex, "fetch", Len(fetches1) + 1, Null, "none", arr, pf))
                  /\ UNCHANGED <<l1Cache, storeQueue>>
          /\ Len(fetches1) <= run.fetches
    /\ UNCHANGED <<auxVars, cfgVars, initVars, l2Cache, l2Store, l2CurrentSizeInBytes, inits,
                   metaAssigns, durable, failures, readyInits>>

\* Transparent mode: getFrames(i, i + 1) settles; frame[0] is returned
DirectResolved(k) ==
    /\ calls[k].st = "direct"
    /\ calls' = [calls EXCEPT ![k].st = "ok", ![k].via = "src",
                              ![k].val = SourceFrames(calls[k].frame, calls[k].frame + 1)[1]]
    /\ UNCHANGED <<auxVars, cfgVars, initVars, lastRequestedChunkIndex, tierVars, inits,
                   fetches, storeQueue, histVars>>

\* Transparent mode: getFrames(i, i + 1) resolves with an empty array, as
\* parseChunkedBuffer returns for a response cut short; frame[0] is undefined
DirectShort(k) ==
    /\ calls[k].st = "direct"
    /\ calls' = [calls EXCEPT ![k].st = "ok", ![k].via = "src", ![k].val = Null]
    /\ UNCHANGED <<auxVars, cfgVars, initVars, lastRequestedChunkIndex, tierVars, inits,
                   fetches, storeQueue, histVars>>

DirectRejected(k) ==
    /\ calls[k].st = "direct"
    /\ failures < MaxFailures
    /\ failures' = failures + 1
    /\ calls' = [calls EXCEPT ![k].st = "err", ![k].err = "source"]
    /\ UNCHANGED <<auxVars, cfgVars, initVars, lastRequestedChunkIndex, tierVars, inits,
                   fetches, storeQueue, metaAssigns, srcCalls, durable, srcLog,
                   readyInits>>

\* ---- the miss resolution (fetchPromise of getOrFetchChunk) ----
\* a variant whose finally callback leaves the registry as it is
PendingFetchesKeep(pending, chunkIndex) == pending

\* fetchPromise.finally(() => { this.pendingFetches.delete(chunkIndex); })
PendingFetchesDelete(pending, chunkIndex) == [pending EXCEPT ![chunkIndex] = 0]

\* dataSource.getFrames(start, end) rejects: the catch block rethrows, finally
\* clears the pending slot, every waiter is rejected with the same error
FetchSourceRejected(f) ==
    /\ fetches[f].st = "source"
    /\ failures < MaxFailures
    /\ failures' = failures + 1
    /\ fetches' = [fetches EXCEPT ![f].st = "err", ![f].err = "source",
                                  ![f].unhandled = UnhandledRejections(fetches[f].origin)]
    /\ pendingFetches' = PendingFetchesDelete(pendingFetches, fetches[f].chunk)
    /\ calls' = SettleWaiters(calls, f, FALSE, << >>, "source")
    /\ UNCHANGED <<auxVars, cfgVars, initVars, lastRequestedChunkIndex, l1Cache, l2Cache,
                   l2Store, l2CurrentSizeInBytes, inits, storeQueue, metaAssigns,
                   srcCalls, durable, srcLog,
                   readyInits>>

\* addChunkToL2 up to its first await: the counter and the index are updated;
\* an evicted entry is deleted from the store before the chunk is written
AddChunkToL2Start(chunkIndex, chunkData) ==
    LET chunkSize == Len(chunkData) * frameSizeInBytes
        r == LRUSet(l2Cache, chunkIndex, chunkSize, Infinity)
    IN IF r.evicted = << >>
       THEN [cache |-> r.cache, size |-> l2CurrentSizeInBytes + chunkSize,
             op |-> "set", key |-> chunkIndex, st |-> "store"]
       ELSE [cache |-> r.cache,
             size |-> l2CurrentSizeInBytes + chunkSize - r.evicted[1].value,
             op |-> "del", key |-> r.evicted[1].key, st |-> "del1"]

\* dataSource.getFrames(start, end) resolves with an array of frames: the
\* resolution enters addChunkToL2
FetchSourceResolvedWith(f, data) ==
    /\ fetches[f].st = "source"
    /\ LET c == fetches[f].chunk
           a == AddChunkToL2Start(c, data)
       IN /\ l2Cache' = a.cache
          /\ l2CurrentSizeInBytes' = a.size
          /\ storeQueue' = Append(storeQueue, [op |-> a.op, key |-> a.key, who |-> f])
          /\ fetches' = [fetches EXCEPT ![f].st = a.st, ![f].data = data,
                                        ![f].before = l2CurrentSizeInBytes]
    /\ UNCHANGED <<auxVars, cfgVars, initVars, lastRequestedChunkIndex, l1Cache, l2Store,
                   pendingFetches, inits, calls, histVars>>

\* dataSource.getFrames(start, end) resolves with the frames of the range
FetchSourceResolved(f) ==
    FetchSourceResolvedWith(f, SourceFrames(ChunkStart(fetches[f].chunk),
                                            ChunkEnd(fetches[f].chunk)))

\* dataSource.getFrames(start, end) resolves with fewer frames than the range
\* has, as parseChunkedBuffer returns for a response that was cut short: the
\* first n frames, n >= 1
FetchSourceShort(f) ==
    LET full == SourceFrames(ChunkStart(fetches[f].chunk), ChunkEnd(fetches[f].chunk))
    IN \E n \in 1 .. Len(full) - 1 : FetchSourceResolvedWith(f, SubSeq(full, 1, n))

\* one turn of "while (l2CurrentSizeInBytes > l2CacheSizeInBytes)" after the
\* store write: the chunk is set again and whatever that evicts is deleted
EvictMore(cache, size, chunkIndex, chunkSize) ==
    IF size > l2CacheSizeInBytes
    THEN LET r == LRUSet(cache, chunkIndex, chunkSize, Infinity)
         IN IF r.evicted = << >>
            THEN [cache |-> r.cache, size |-> size, del |-> Null]   \* break
            ELSE [cache |-> r.cache, size |-> size - r.evicted[1].value,
                  del |-> r.evicted[1].key]
    ELSE [cache |-> cache, size |-> size, del |-> Null]

\* a variant that writes tier 1 whether or not the tier-2 write succeeded
\* (the two writes issued in parallel)
TierOneRegardless(cache, chunkIndex, chunkData, l2ok) ==
    AddChunkToL1(cache, chunkIndex, chunkData)

\* lines 252-253: tier 1 is written only after addChunkToL2 has resolved
TierOneAfterL2(cache, chunkIndex, chunkData, l2ok) ==
    IF l2ok THEN AddChunkToL1(cache, chunkIndex, chunkData) ELSE cache

\* a store request of a miss resolution fails: addChunkToL2 throws, the catch
\* block rethrows, finally clears the slot; index and counter stay as they are
StoreWriteFailed ==
    /\ storeQueue # << >>
    /\ storeQueue[1].op \in {"set", "del"}
    /\ failures < MaxFailures
    /\ failures' = failures + 1
    /\ LET f == storeQueue[1].who
           c == fetches[f].chunk
       IN /\ fetches' = [fetches EXCEPT ![f].st = "err", ![f].err = "storeWrite",
                                        ![f].unhandled =
                                            UnhandledRejections(fetches[f].origin)]
          /\ pendingFetches' = PendingFetchesDelete(pendingFetches, c)
          /\ calls' = SettleWaiters(calls, f, FALSE, << >>, "storeWrite")
          /\ l1Cache' = TierOneAfterL2(l1Cache, c, fetches[f].data, FALSE)
    /\ storeQueue' = Tail(storeQueue)
    /\ UNCHANGED <<auxVars, cfgVars, initVars, lastRequestedChunkIndex, l2Cache, l2Store,
                   l2CurrentSizeInBytes, inits, metaAssigns, srcCalls, durable, srcLog,
                   readyInits>>

\* set(chunkIndex, chunkData, l2Store) or a del of an evicted key succeeds; the
\* resolution goes on to the eviction loop, and when that breaks to
\* addChunkToL1, the return and the finally callback
StoreWriteDone ==
    /\ storeQueue # << >>
    /\ storeQueue[1].op \in {"set", "del"}
    /\ LET f == storeQueue[1].who
           c == fetches[f].chunk
           data == fetches[f].data
           store1 == [l2Store EXCEPT ![storeQueue[1].key] =
                         IF storeQueue[1].op = "set" THEN data ELSE << >>]
           e == EvictMore(l2Cache, l2CurrentSizeInBytes, c,
                          Len(data) * frameSizeInBytes)
       IN /\ l2Store' = store1
          /\ IF fetches[f].st = "del1"
             THEN \* the eviction of the first set is done: write the chunk
                  /\ storeQueue' = Append(Tail(storeQueue),
                                          [op |-> "set", key |-> c, who |-> f])
                  /\ fetches' = [fetches EXCEPT ![f].st = "store"]
                  /\ UNCHANGED <<l1Cache, l2Cache, l2CurrentSizeInBytes,
                                 pendingFetches, calls, durable>>
             ELSE IF e.del # Null
             THEN \* over budget and an entry was evicted: delete it, loop
                  /\ l2Cache' = e.cache
                  /\ l2CurrentSizeInBytes' = e.size
                  /\ storeQueue' = Append(Tail(storeQueue),
                                          [op |-> "del", key |-> e.del, who |-> f])
                  /\ fetches' = [fetches EXCEPT ![f].st = "del2"]
                  /\ durable' = durable \cup {c}
                  /\ UNCHANGED <<l1Cache, pendingFetches, calls>>
             ELSE \* within budget, or nothing to evict: L1 write and return
                  /\ l2Cache' = e.cache
                  /\ l2CurrentSizeInBytes' = e.size
                  /\ storeQueue' = Tail(storeQueue)
                  /\ durable' = durable \cup {c}
                  /\ l1Cache' = TierOneAfterL2(l1Cache, c, data, TRUE)
                  /\ fetches' = [fetches EXCEPT ![f].st = "ok"]
                  /\ pendingFetches' = PendingFetchesDelete(pendingFetches, c)
                  /\ calls' = SettleWaiters(calls, f, TRUE, data, "none")
    /\ UNCHANGED <<auxVars, cfgVars, initVars, lastRequestedChunkIndex, inits, metaAssigns,
                   srcCalls, failures, srcLog,
                   readyInits>>

\* ---- getOrFetchChunk after "await get(chunkIndex, l2Store)" ----
\* the read fails: the getFrame call is rejected
StoreReadFailed ==
    /\ storeQueue # << >>
    /\ storeQueue[1].op = "get"
    /\ failures < MaxFailures
    /\ failures' = failures + 1
    /\ calls' = [calls EXCEPT ![storeQueue[1].who].st = "err",
                              ![storeQueue[1].who].err = "storeRead"]
    /\ storeQueue' = Tail(storeQueue)
    /\ UNCHANGED <<auxVars, cfgVars, initVars, lastRequestedChunkIndex, tierVars, inits,
                   fetches, metaAssigns, srcCalls, durable, srcLog,
                   readyInits>>

\* a variant of the tier-2 hit that returns the chunk without promoting it
PromoteSkipped(cache, chunkIndex, chunkData) == cache

\* this.addChunkToL1(chunkIndex, chunkData); // Promote to L1
PromoteToL1(cache, chunkIndex, chunkData) == AddChunkToL1(cache, chunkIndex, chunkData)

\* the read returns the chunk: refresh tier 2, promote into tier 1, return
StoreReadHit ==
    /\ storeQueue # << >>
    /\ storeQueue[1].op = "get"
    /\ l2Store[storeQueue[1].key] # << >>
    /\ LET k == storeQueue[1].who
           c == storeQueue[1].key
           data == l2Store[c]
       IN /\ l2Cache' = LRUGet(l2Cache, c)
          /\ l1Cache' = PromoteToL1(l1Cache, c, data)
          /\ durable' = durable \cup {c}
          /\ calls' = [calls EXCEPT ![k].st = "ok", ![k].via = "l2",
                                    ![k].val = FrameAt(data, calls[k].frame)]
    /\ storeQueue' = Tail(storeQueue)
    /\ UNCHANGED <<auxVars, cfgVars, initVars, lastRequestedChunkIndex, l2Store,
                   l2CurrentSizeInBytes, pendingFetches, inits, fetches,
                   metaAssigns, srcCalls, failures, srcLog,
                   readyInits>>

\* the read returns undefined: fall through to the miss path
StoreReadMiss ==
    /\ storeQueue # << >>
    /\ storeQueue[1].op = "get"
    /\ l2Store[storeQueue[1].key] = << >>
    /\ LET k == storeQueue[1].who
           c == storeQueue[1].key
       IN IF PendingFetchesHas(pendingFetches, c)
          THEN /\ calls' = [calls EXCEPT ![k].st = "fetch", ![k].f = pendingFetches[c]]
               /\ UNCHANGED <<fetches, pendingFetches, srcCalls, srcLog>>
          ELSE /\ Len(fetches) < run.fetches
               /\ fetches' = Append(fetches, NewFetch(c, "demand"))
               /\ pendingFetches' = [pendingFetches EXCEPT ![c] = Len(fetches) + 1]
               /\ srcCalls' = [srcCalls EXCEPT ![c] = @ + 1]
               /\ srcLog' = Append(srcLog, GetFramesCall(ChunkStart(c), ChunkEnd(c)))
               /\ calls' = [calls EXCEPT ![k].st = "fetch", ![k].f = Len(fetches) + 1]
    /\ storeQueue' = Tail(storeQueue)
    /\ UNCHANGED <<auxVars, cfgVars, initVars, lastRequestedChunkIndex, l1Cache, l2Cache,
                   l2Store, l2CurrentSizeInBytes, inits, metaAssigns, durable,
                   failures, readyInits>>

Next ==
    \/ InitStep
    \/ \E i \in -1 .. FrameCount :
          \/ GetFrameRejected(i)
          \/ GetFrameTransparent(i)
          \/ GetFrameChunked(i)
    \/ \E k \in 1 .. Len(calls) :
          \/ DirectResolved(k)
          \/ DirectRejected(k)
    \/ \E f \in 1 .. Len(fetches) :
          \/ FetchSourceRejected(f)
          \/ FetchSourceResolved(f)
    \/ StoreWriteFailed
    \/ StoreWriteDone
    \/ StoreReadFailed
    \/ StoreReadHit
    \/ StoreReadMiss

Spec == Init /\ [][Next]_vars

\* ---- the proxy when every I/O operation completes ----
\* the completion, with a value or an error, of the I/O operation that init
\* call t, getFrame call k or miss resolution f is waiting for, and of the
\* request at the head of the store queue
MetadataCompletes(t) ==
    /\ t <= Len(inits)
    /\ InitMetaRejected(t) \/ InitMetaResolved(t)

FirstFrameCompletes(t) ==
    /\ t <= Len(inits)
    /\ InitFirstFailed(t) \/ InitFirstResolved(t)

DirectCompletes(k) ==
    /\ k <= Len(calls)
    /\ DirectResolved(k) \/ DirectRejected(k)

FetchSourceCompletes(f) ==
    /\ f <= Len(fetches)
    /\ FetchSourceRejected(f) \/ FetchSourceResolved(f)

StoreCompletes ==
    \/ StoreWriteFailed
    \/ StoreWriteDone
    \/ StoreReadFailed
    \/ StoreReadHit
    \/ StoreReadMiss

\* every promise of the data source settles and every request of the store
\* completes; the client may stop calling at any point
IOCompletes ==
    /\ \A t \in 1 .. MaxInits :
          WF_vars(MetadataCompletes(t)) /\ WF_vars(FirstFrameCompletes(t))
    /\ \A k \in 1 .. MaxCalls : WF_vars(DirectCompletes(k))
    /\ \A f \in 1 .. AllFetches : WF_vars(FetchSourceCompletes(f))
    /\ WF_vars(StoreCompletes)

\* one init() and up to MaxCalls getFrame() calls on a source with metadata,
\* followed through every miss resolution they can start
LiveInit ==
    /\ ProxyInit
    /\ srcMeta = "valid"
    /\ run = [inits |-> 1, calls |-> MaxCalls, fetches |-> AllFetches]
    /\ LruIdle
    /\ CodecIdle
    /\ IndexIdle

\* the indexes the client asks for: the first frame of every chunk of the
\* chunked source, and frameCount, which is out of bounds
LiveFrames ==
    {i \in 0 .. FrameCount : i % FramesPerChunkOf(SmallFrameBytes) = 0 \/ i = FrameCount}

LiveNext ==
    \/ InitStep
    \/ \E i \in LiveFrames :
          \/ GetFrameRejected(i)
          \/ GetFrameTransparent(i)
          \/ GetFrameChunked(i)
    \/ \E k \in 1 .. Len(calls) :
          \/ DirectResolved(k)
          \/ DirectRejected(k)
    \/ \E f \in 1 .. Len(fetches) :
          \/ FetchSourceRejected(f)
          \/ FetchSourceResolved(f)
    \/ StoreWriteFailed
    \/ StoreWriteDone
    \/ StoreReadFailed
    \/ StoreReadHit
    \/ StoreReadMiss

SpecLive == LiveInit /\ [][LiveNext]_vars /\ IOCompletes

\* ---- the proxy over a source and a store that never fail ----
\* one init(), then up to MaxReliableCalls getFrame() calls with valid
\* indexes, in Chunked mode; every I/O operation succeeds
ReliableInit ==
    /\ ProxyInit
    /\ srcFrameBytes = SmallFrameBytes
    /\ srcMeta = "valid"
    /\ run = [inits |-> 1, calls |-> MaxReliableCalls, fetches |-> MaxFetches]
    /\ LruIdle
    /\ CodecIdle
    /\ IndexIdle

ReliableNext ==
    \/ InitCall
    \/ \E t \in 1 .. Len(inits) :
          \/ InitMetaResolved(t)
          \/ InitFirstResolved(t)
    \/ \E i \in 0 .. FrameCount - 1 : GetFrameChunked(i)
    \/ \E f \in 1 .. Len(fetches) : FetchSourceResolved(f)
    \/ StoreWriteDone
    \/ StoreReadHit

SpecReliable == ReliableInit /\ [][ReliableNext]_vars

\* ---- the proxy over a source whose responses may be cut short ----
\* one init(), then up to MaxCalls getFrame() calls with valid indexes; no
\* I/O operation fails, but getFrames may resolve with fewer frames than asked
ShortInit ==
    /\ ProxyInit
    /\ srcMeta = "valid"
    /\ run = [inits |-> 1, calls |-> MaxCalls, fetches |-> MaxFetches]
    /\ LruIdle
    /\ CodecIdle
    /\ IndexIdle

ShortNext ==
    \/ InitCall
    \/ \E t \in 1 .. Len(inits) :
          \/ InitMetaResolved(t)
          \/ InitFirstResolved(t)
    \/ \E i \in 0 .. FrameCount - 1 :
          \/ GetFrameTransparent(i)
          \/ GetFrameChunked(i)
    \/ \E k \in 1 .. Len(calls) :
          \/ DirectResolved(k)
          \/ DirectShort(k)
    \/ \E f \in 1 .. Len(fetches) :
          \/ FetchSourceResolved(f)
          \/ FetchSourceShort(f)
    \/ StoreWriteDone
    \/ StoreReadHit

SpecShort == ShortInit /\ [][ShortNext]_vars

\* ---- an LRUCache exercised on its own: any get, set and has calls ----
LruInit ==
    /\ ProxyIdle
    /\ lru \in {NewCache(n) : n \in 1 .. MaxCapacity}
    /\ lruHist = NewHist
    /\ CodecIdle
    /\ IndexIdle

\* cache.get(key)
LruGet(key) ==
    /\ CacheHas(lru, key) => lruHist.clock < MaxUses
    /\ lru' = CacheGet(lru, key).c
    /\ lruHist' =
          IF CacheHas(lru, key)
          THEN [lruHist EXCEPT !.clock = @ + 1, !.stamp[key] = lruHist.clock + 1,
                               !.list = LRUGet(@, key),
                               !.last = [op |-> "get", key |-> key, hit |-> TRUE,
                                         evicted |-> << >>]]
          ELSE [lruHist EXCEPT !.last = [op |-> "get", key |-> key, hit |-> FALSE,
                                         evicted |-> << >>]]
    /\ UNCHANGED <<proxyVars, codecVars, indexVars>>

\* cache.set(key, value); the value written is the number of the call
LruSet(key) ==
    /\ lruHist.clock < MaxUses
    /\ LET r == CacheSet(lru, key, lruHist.clock + 1)
       IN /\ lru' = r.c
          /\ lruHist' =
                [lruHist EXCEPT
                    !.clock = @ + 1,
                    !.stamp[key] = lruHist.clock + 1,
                    !.born[key] = IF CacheHas(lru, key) THEN @ ELSE lruHist.clock + 1,
                    !.list = LRUSet(@, key, lruHist.clock + 1, lru.capacity).cache,
                    !.last = [op |-> "set", key |-> key, hit |-> CacheHas(lru, key),
                              evicted |-> r.evicted]]
    /\ UNCHANGED <<proxyVars, codecVars, indexVars>>

\* cache.has(key)
LruHas(key) ==
    /\ lruHist' = [lruHist EXCEPT !.last = [op |-> "has", key |-> key,
                                            hit |-> CacheHas(lru, key),
                                            evicted |-> << >>]]
    /\ UNCHANGED <<lru, proxyVars, codecVars, indexVars>>

LruNext ==
    \E key \in Keys :
        \/ LruGet(key)
        \/ LruSet(key)
        \/ LruHas(key)

SpecLRU == LruInit /\ [][LruNext]_vars

\* ---- the decoders of MdsrvDataSource (src/unnamed/part_001, part_000) ----
\* An ArrayBuffer is the sequence of its bytes; an element of a Float32Array
\* view is the four bytes it covers, in buffer order.
WordsFrom(buffer, byteOffset, count) ==
    [i \in 1 .. count |->
        SubSeq(buffer, byteOffset + 4 * (i - 1) + 1, byteOffset + 4 * i)]

Thrown(err) == [ok |-> FALSE, err |-> err, frames |-> << >>]

Returned(frames) == [ok |-> TRUE, err |-> "none", frames |-> frames]

\* a variant that forgets the timestamp and reads the box from byte 4
parseSingleFrameBufferNoTime(buffer) ==
    IF Len(buffer) < 44 THEN Thrown("tooSmall")
    ELSE IF (Len(buffer) - 44) % 4 # 0 THEN Thrown("RangeError")
    ELSE Returned(<<[coords |-> WordsFrom(buffer, 44, (Len(buffer) - 44) \div 4),
                     box |-> WordsFrom(buffer, 4, 9)]>>)

\* part_001: new Float32Array(buffer, 44) throws a RangeError when the bytes
\* from 44 on are not a whole number of elements
parseSingleFrameBuffer(buffer) ==
    IF Len(buffer) < 44 THEN Thrown("tooSmall")
    ELSE IF (Len(buffer) - 44) % 4 # 0 THEN Thrown("RangeError")
    ELSE Returned(<<[coords |-> WordsFrom(buffer, 44, (Len(buffer) - 44) \div 4),
                     box |-> WordsFrom(buffer, 8, 9)]>>)

\* a variant that reads the length prefix little-endian
Uint32LE(buffer, offset) ==
    buffer[offset + 4] * 16777216 + buffer[offset + 3] * 65536
        + buffer[offset + 2] * 256 + buffer[offset + 1]

\* dataView.getUint32(offset, false)
Uint32BE(buffer, offset) ==
    buffer[offset + 1] * 16777216 + buffer[offset + 2] * 65536
        + buffer[offset + 3] * 256 + buffer[offset + 4]

\* the while loop of parseChunkedBuffer from an offset on, with the frames
\* pushed so far; an exception of parseSingleFrameBuffer leaves the function
RECURSIVE ChunkedFrom(_, _, _)
ChunkedFrom(buffer, offset, frames) ==
    IF ~(offset < Len(buffer)) THEN Returned(frames)
    ELSE IF offset + 4 > Len(buffer) THEN Returned(frames)
    ELSE LET frameLength == Uint32BE(buffer, offset)
             start == offset + 4
         IN IF start + frameLength > Len(buffer) THEN Returned(frames)
            ELSE LET one == parseSingleFrameBuffer(
                               SubSeq(buffer, start + 1, start + frameLength))
                 IN IF ~one.ok THEN one
                    ELSE ChunkedFrom(buffer, start + frameLength, frames \o one.frames)

parseChunkedBuffer(buffer) == ChunkedFrom(buffer, 0, << >>)

\* part_000: the decoder of the one-frame response
parseFramesFromBuffer(buffer) ==
    IF Len(buffer) < 44 THEN Returned(<< >>)
    ELSE IF (Len(buffer) - 44) % 4 # 0 THEN Thrown("RangeError")
    ELSE Returned(<<[coords |-> WordsFrom(buffer, 44, (Len(buffer) - 44) \div 4),
                     box |-> WordsFrom(buffer, 8, 9)]>>)

\* ---- the responses the decoders are given ----
\* the bytes of the float32 values 0.0 .. 9.0 on a little-endian platform
Float32Word(n) ==
    CASE n = 0 -> <<0, 0, 0, 0>>
      [] n = 1 -> <<0, 0, 128, 63>>
      [] n = 2 -> <<0, 0, 0, 64>>
      [] n = 3 -> <<0, 0, 64, 64>>
      [] n = 4 -> <<0, 0, 128, 64>>
      [] n = 5 -> <<0, 0, 160, 64>>
      [] n = 6 -> <<0, 0, 192, 64>>
      [] n = 7 -> <<0, 0, 224, 64>>
      [] n = 8 -> <<0, 0, 0, 65>>
      [] n = 9 -> <<0, 0, 16, 65>>

RECURSIVE Flatten(_)
Flatten(words) == IF words = << >> THEN << >> ELSE words[1] \o Flatten(Tail(words))

Zeros(n) == [i \in 1 .. n |-> 0]

\* Wire format A: the frame-count marker and the timestamp (the header), the
\* nine box values, the coordinate values
EncodeWireA(frame, header) == header \o Flatten(frame.box) \o Flatten(frame.coords)

Uint32Bytes(n) ==
    <<(n \div 16777216) % 256, (n \div 65536) % 256, (n \div 256) % 256, n % 256>>

\* Wire format B: [4-byte big-endian length][payload] records, then a tail
RECURSIVE EncodeContainer(_, _)
EncodeContainer(records, tail) ==
    IF records = << >> THEN tail
    ELSE Uint32Bytes(Len(records[1])) \o records[1]
             \o EncodeContainer(Tail(records), tail)

ZeroBox == [i \in 1 .. 9 |-> Float32Word(0)]
CountingBox == [i \in 1 .. 9 |-> Float32Word(i)]

Frames ==
    [box : {ZeroBox, CountingBox},
     coords : UNION {[1 .. n -> {Float32Word(1), Float32Word(2), Float32Word(3)}] :
                        n \in 0 .. MaxCoords}]

\* marker 1 and time 0; all zero; marker 2 and time 1.0
Headers ==
    {<<1, 0, 0, 0>> \o Float32Word(0), Zeros(8), <<2, 0, 0, 0>> \o Float32Word(1)}

ExamplePayload ==
    EncodeWireA([box |-> CountingBox,
                 coords |-> <<Float32Word(1), Float32Word(2), Float32Word(3)>>],
                <<1, 0, 0, 0>> \o Float32Word(0))

\* payloads of records: two frames, and payloads that are no frame
RecordPayloads == {Zeros(44), ExamplePayload, Zeros(43), << >>, Zeros(46)}

\* what follows the last complete record: nothing, less than a length prefix,
\* or a length prefix that declares more bytes than remain
Tails ==
    {<< >>, <<0>>, <<0, 0, 0>>, Uint32Bytes(44), Uint32Bytes(44) \o Zeros(43),
     Uint32Bytes(256) \o Zeros(44)}

CodecInputs ==
    {[kind |-> "container", records |-> r, tail |-> t, frame |-> << >>,
      header |-> << >>, bytes |-> EncodeContainer(r, t)] :
        r \in UNION {[1 .. n -> RecordPayloads] : n \in 0 .. MaxRecords}, t \in Tails}
    \cup
    {[kind |-> "payload", records |-> << >>, tail |-> << >>, frame |-> << >>,
      header |-> << >>, bytes |-> Zeros(n)] : n \in 0 .. 44 + 4 * MaxCoords + 1}
    \cup
    {[kind |-> "frame", records |-> << >>, tail |-> << >>, frame |-> <<f>>,
      header |-> h, bytes |-> EncodeWireA(f, h)] : f \in Frames, h \in Headers}

CodecInit ==
    /\ ProxyIdle
    /\ LruIdle
    /\ IndexIdle
    /\ codecIn \in CodecInputs
    /\ codecOut = NoOutput

\* one call of a decoder on the response
Decode(op, result) ==
    /\ codecOut.op = "none"
    /\ codecOut' = [op |-> op, ok |-> result.ok, err |-> result.err,
                    frames |-> result.frames]
    /\ UNCHANGED <<codecIn, proxyVars, lruVars, indexVars>>

DecodeChunked == Decode("parseChunkedBuffer", parseChunkedBuffer(codecIn.bytes))

DecodeSingle == Decode("parseSingleFrameBuffer", parseSingleFrameBuffer(codecIn.bytes))

DecodeLegacy == Decode("parseFramesFromBuffer", parseFramesFromBuffer(codecIn.bytes))

CodecNext ==
    \/ DecodeChunked
    \/ DecodeSingle
    \/ DecodeLegacy

SpecCodec == CodecInit /\ [][CodecNext]_vars

\* ---- the chunk arithmetic on its own ----
\* a frame count and a chunk length: a grid of small values, and the
\* trajectory of 250 frames in chunks of 100
IndexInputs ==
    {[NoLocation EXCEPT !.frameCount = count, !.framesPerChunk = perChunk] :
        count \in 1 .. MaxFrameCount, perChunk \in 1 .. MaxFramesPerChunk}
    \cup {[NoLocation EXCEPT !.frameCount = 250, !.framesPerChunk = 100]}

IndexInit ==
    /\ ProxyIdle
    /\ LruIdle
    /\ CodecIdle
    /\ idx \in IndexInputs

\* what getFrame(frameIndex) and getOrFetchChunk compute for a valid index
Locate(frameIndex) ==
    /\ idx.frame = Null
    /\ LET c == ChunkIndexOf(frameIndex, idx.framesPerChunk)
       IN idx' = [idx EXCEPT
                    !.frame = frameIndex,
                    !.chunk = c,
                    !.offset = FrameOffsetOf(frameIndex, idx.framesPerChunk),
                    !.start = RangeStart(c, idx.framesPerChunk),
                    !.end = RangeEnd(c, idx.framesPerChunk, idx.frameCount)]
    /\ UNCHANGED <<proxyVars, lruVars, codecVars>>

IndexNext == \E frameIndex \in 0 .. idx.frameCount - 1 : Locate(frameIndex)

SpecIndex == IndexInit /\ [][IndexNext]_vars

\* ---- helpers of the properties ----
RECURSIVE SumValues(_)
SumValues(cache) ==
    IF cache = << >> THEN 0 ELSE cache[1].value + SumValues(Tail(cache))

RECURSIVE SumStored(_)
SumStored(cs) ==
    IF cs = {} THEN 0
    ELSE LET c == CHOOSE x \in cs : TRUE
         IN Len(l2Store[c]) * Max(frameSizeInBytes, 0) + SumStored(cs \ {c})

\* bytes of the chunks listed in the tier-2 index / held by the backing store
L2IndexBytes == SumValues(l2Cache)
L2StoreBytes == SumStored(Chunks)

\* some addChunkToL2 call has started and not returned
L2InsertInProgress ==
    \E f \in 1 .. Len(fetches) : fetches[f].st \in {"del1", "store", "del2"}

Settled(k) == calls[k].st \in {"ok", "err"}

FetchDone(f) == fetches[f].st \in {"ok", "err"}

\* ---- C1 ----
\* C1: whenever no tier-2 insert is in progress, the bytes of the chunks held
\* in tier 2 (listed in the index, held by the store, and counted by the
\* counter) are at most l2CacheSizeInBytes.
C1_ByteBudget ==
    ~L2InsertInProgress =>
        /\ L2IndexBytes <= l2CacheSizeInBytes
        /\ L2StoreBytes <= l2CacheSizeInBytes
        /\ l2CurrentSizeInBytes <= l2CacheSizeInBytes

\* ---- C2 ----
\* C2: a getFrame call that arrives while a miss resolution for its chunk is
\* in flight never starts or joins another fetch of that chunk, and once both
\* are settled it has the result of that resolution: the frame of its chunk
\* data, or its error.
C2_SingleFlight ==
    \A k \in 1 .. Len(calls) :
        calls[k].arr # 0 =>
            /\ calls[k].f \in {0, calls[k].arr}
            /\ (Settled(k) /\ FetchDone(calls[k].arr)) =>
                  IF fetches[calls[k].arr].st = "ok"
                  THEN /\ calls[k].st = "ok"
                       /\ calls[k].val = FrameAt(fetches[calls[k].arr].data, calls[k].frame)
                  ELSE /\ calls[k].st = "err"
                       /\ calls[k].ef = calls[k].arr

\* ---- C3 ----
\* C3: every chunk index present in tier 1 was successfully written to, or
\* successfully read back from, the tier-2 store at an earlier point.
C3_TierOneIsDurable == LRUKeys(l1Cache) \subseteq durable

C3_Witness ==
    /\ l1Cache # << >>
    /\ \E f \in 1 .. Len(fetches) :
          fetches[f].st = "ok" /\ LRUHas(l1Cache, fetches[f].chunk)
    /\ \E f \in 1 .. Len(fetches) : fetches[f].err = "storeWrite"

\* ---- C4 ----
\* C4: in the step in which the store write of a miss resolution fails, every
\* call waiting on that resolution is rejected with its error, and tier 1 does
\* not contain the chunk after the step.
C4_FailedWriteFailsCallers ==
    [][\A f \in 1 .. Len(fetches) :
          (fetches[f].st = "store" /\ fetches'[f].st = "err") =>
              /\ ~LRUHas(l1Cache', fetches[f].chunk)
              /\ \A k \in 1 .. Len(calls) :
                    (calls[k].st = "fetch" /\ calls[k].f = f) =>
                        /\ calls'[k].st = "err"
                        /\ calls'[k].err = "storeWrite"
                        /\ calls'[k].ef = f]_vars

C4_Witness ==
    \E f \in 1 .. Len(fetches) :
        /\ fetches[f].err = "storeWrite"
        /\ Cardinality({k \in 1 .. Len(calls) : calls[k].ef = f}) >= 2
        /\ l1Cache # << >>

\* ---- C5 ----
\* C5: in the step in which the store write inside addChunkToL2 fails, the
\* chunk is afterwards listed neither in tier 1 nor in the tier-2 index, and
\* the byte counter has the value it had before the addChunkToL2 call.
C5_NoTraceOfFailedWrite ==
    [][\A f \in 1 .. Len(fetches) :
          (fetches[f].st = "store" /\ fetches'[f].st = "err") =>
              /\ ~LRUHas(l1Cache', fetches[f].chunk)
              /\ ~LRUHas(l2Cache', fetches[f].chunk)
              /\ l2CurrentSizeInBytes' = fetches[f].before]_vars

\* ---- C6 ----
\* C6: every getFrame(i) that resolves returns the frame the source produces
\* for index i (the source's frame for index i is named i).
C6_SameAsUncached ==
    \A k \in 1 .. Len(calls) :
        calls[k].st = "ok" =>
            calls[k].val = SourceFrames(calls[k].frame, calls[k].frame + 1)[1]

\* a frame at a non-zero offset served from the tier-2 store and promoted to
\* tier 1, when more chunks have been stored than tier 1 holds (so tier 1 has
\* evicted one), next to a call served by a fetch
C6_Witness ==
    /\ ~isTransparent
    /\ Cardinality(durable) > l1CacheSizeInChunks
    /\ \E k \in 1 .. Len(calls) :
          /\ calls[k].st = "ok"
          /\ calls[k].via = "l2"
          /\ calls[k].frame % framesPerChunk # 0
          /\ LRUHas(l1Cache, calls[k].frame \div framesPerChunk)
          /\ Len(l1Cache) = l1CacheSizeInChunks
    /\ \E j \in 1 .. Len(calls) : calls[j].st = "ok" /\ calls[j].via = "src"

C6_WitnessTransparent ==
    /\ isTransparent
    /\ \E k \in 1 .. Len(calls) : calls[k].st = "ok" /\ calls[k].frame > 0

\* ---- C7 ----
\* C7: a settled miss resolution has no pending-fetch entry, and a getFrame
\* that is the next request for a chunk after a failed resolution of that
\* chunk does not settle without a fresh fetch having been issued for it.
C7_RetryAfterFailure ==
    /\ \A f \in 1 .. Len(fetches) :
          FetchDone(f) => pendingFetches[fetches[f].chunk] # f
    /\ \A k \in 1 .. Len(calls) :
          (calls[k].retry # 0 /\ Settled(k)) =>
              /\ calls[k].f > calls[k].retry
              /\ calls[k].ef # calls[k].retry

\* ---- C8 ----
\* C8 as claimed: no getFrame call fails with an error that originated in a
\* fetch started by prefetchNextChunk.
C8_PrefetchErrorNeverSurfaces ==
    \A k \in 1 .. Len(calls) :
        (calls[k].st = "err" /\ calls[k].ef # 0) =>
            fetches[calls[k].ef].origin # "prefetch"

\* C8 as amended: the error of a prefetch-started fetch never reaches the
\* getFrame call that triggered the prefetch; a call that fails with it is a
\* call for that same chunk that joined the fetch while it was in flight.
C8_PrefetchErrorOnlyToJoiners ==
    \A k \in 1 .. Len(calls) :
        (calls[k].st = "err" /\ calls[k].ef # 0
            /\ fetches[calls[k].ef].origin = "prefetch") =>
                /\ calls[k].pf # calls[k].ef
                /\ calls[k].f = calls[k].ef
                /\ calls[k].frame \div framesPerChunk = fetches[calls[k].ef].chunk

\* a prefetch has failed, the call that triggered it resolved, a joiner failed
C8_Witness ==
    \E f \in 1 .. Len(fetches) :
        /\ fetches[f].origin = "prefetch"
        /\ fetches[f].st = "err"
        /\ \E k \in 1 .. Len(calls) : calls[k].pf = f /\ calls[k].st = "ok"
        /\ \E k \in 1 .. Len(calls) : calls[k].ef = f /\ calls[k].st = "err"

C10_MetadataAssignedOnce == metaAssigns <= 1

\* ---- C11 ----
\* C11: an init() call made when an earlier init() call has completed returns
\* at once: it issues no data-source call and changes neither metadata,
\* frameSizeInBytes, framesPerChunk, the mode, the tiers, the store queue nor
\* the pending registry.
C11_InitIdempotent ==
    [][(/\ Len(inits') = Len(inits) + 1
        /\ \E t \in 1 .. Len(inits) : inits[t] = "done") =>
           /\ inits'[Len(inits')] = "done"
           /\ srcLog' = srcLog
           /\ UNCHANGED <<initVars, lastRequestedChunkIndex, tierVars, storeQueue,
                          fetches, metaAssigns>>]_vars

\* an init() call was made after the proxy had been initialised; only the
\* first init() called the source for the metadata and the sample frame, and
\* a getFrame has filled the tiers
C11_Witness ==
    /\ readyInits >= 1
    /\ metaAssigns = 1
    /\ Len(SelectSeq(srcLog, LAMBDA e : e.op = "getMetadata")) = 1
    /\ \A t \in 1 .. Len(inits) : inits[t] = "done"
    /\ l1Cache # << >>

\* ---- C12 ----
\* C12: a getFrame(i) with i < 0 or i >= frameCount is rejected in the step
\* that makes the call, and that step issues no data-source call and no store
\* request, starts no fetch or prefetch, and changes neither tier, the backing
\* store, the byte counter, the pending registry nor lastRequestedChunkIndex.
C12_OutOfBoundsHasNoEffect ==
    [][(/\ Len(calls') = Len(calls) + 1
        /\ \/ calls'[Len(calls')].frame < 0
           \/ calls'[Len(calls')].frame >= FrameCount) =>
           /\ calls'[Len(calls')].st = "err"
           /\ calls'[Len(calls')].pf = 0
           /\ srcLog' = srcLog
           /\ UNCHANGED <<lastRequestedChunkIndex, tierVars, storeQueue, fetches,
                          srcCalls>>]_vars

\* getFrame(frameCount) was rejected by the bounds check after a getFrame
\* that went through the tiers
C12_Witness ==
    /\ Len(calls) = 2
    /\ calls[1].st = "ok" /\ calls[1].via = "src"
    /\ calls[2].err = "range" /\ calls[2].frame = FrameCount
    /\ lastRequestedChunkIndex # Null
    /\ l1Cache # << >>

\* ---- C13 ----
\* C13: once the frame size is measured, the proxy is in Transparent mode
\* exactly when that size exceeds targetChunkSizeInBytes; in Transparent mode
\* a valid getFrame(i) issues the one call getFrames(i, i + 1) when it is made
\* and none when that call settles, and no step changes tier 1, the tier-2
\* index, the backing store, the byte counter, the pending registry, the
\* store queue or lastRequestedChunkIndex.
C13_TransparentBypass ==
    [][/\ frameSizeInBytes' # Null =>
              (isTransparent' <=> frameSizeInBytes' > targetChunkSizeInBytes)
       /\ isTransparent =>
              /\ UNCHANGED <<lastRequestedChunkIndex, tierVars, storeQueue, fetches>>
              /\ LET n == Len(calls')
                 IN IF n = Len(calls) + 1 /\ calls'[n].frame \in 0 .. FrameCount - 1
                    THEN /\ calls'[n].st = "direct"
                         /\ srcLog' = Append(srcLog,
                                GetFramesCall(calls'[n].frame, calls'[n].frame + 1))
                    ELSE calls' # calls => srcLog' = srcLog]_vars

\* Transparent mode: two getFrame calls for different frames have resolved,
\* each with its own source call, and the tiers are empty
C13_Witness ==
    /\ isTransparent
    /\ frameSizeInBytes = LargeFrameBytes
    /\ Len(calls) = 2
    /\ calls[1].st = "ok" /\ calls[2].st = "ok"
    /\ calls[1].frame # calls[2].frame
    /\ srcLog[Len(srcLog)] = GetFramesCall(calls[2].frame, calls[2].frame + 1)
    /\ srcLog[Len(srcLog) - 1] = GetFramesCall(calls[1].frame, calls[1].frame + 1)
    /\ l1Cache = << >> /\ l2Cache = << >> /\ lastRequestedChunkIndex = Null

\* ---- C14 ----
\* the getFrame calls that passed both guards of getFrame
ValidCalls == {k \in 1 .. Len(calls) : calls[k].err \notin {"notInit", "range"}}

\* the chunk index of the latest valid getFrame call, Null when there is none
PreviousChunk ==
    IF ValidCalls = {} THEN Null
    ELSE calls[CHOOSE k \in ValidCalls : \A j \in ValidCalls : j <= k].frame
             \div framesPerChunk

\* C14: in Chunked mode a valid getFrame call of chunk c starts a prefetch
\* only of chunk c + 1 and only when c differs from the chunk of the previous
\* valid getFrame call (or there is none); when it differs, the prefetch is
\* started unless chunk c + 1 does not exist or is already cached or pending.
C14_PrefetchOnCrossing ==
    [][LET n == Len(calls')
           c == calls'[n].frame \div framesPerChunk
           started == {f \in Len(fetches) + 1 .. Len(fetches') :
                          fetches'[f].origin = "prefetch"}
       IN (/\ n = Len(calls) + 1
           /\ ~isTransparent
           /\ calls'[n].err \notin {"notInit", "range"}) =>
              /\ c = PreviousChunk => (started = {} /\ calls'[n].pf = 0)
              /\ \A f \in started : fetches'[f].chunk = c + 1 /\ calls'[n].pf = f
              /\ (c # PreviousChunk /\ PrefetchStarts(c + 1)) => started # {}]_vars

\* the first call prefetched the next chunk and that prefetch failed at the
\* source; the second call, in the same chunk, was served by tier 1 and
\* started no prefetch although the next chunk is neither cached nor pending
C14_Witness ==
    /\ Len(calls) = 2
    /\ calls[1].pf # 0
    /\ fetches[calls[1].pf].err = "source"
    /\ calls[2].frame \div framesPerChunk = calls[1].frame \div framesPerChunk
    /\ calls[2].pf = 0 /\ calls[2].via = "l1" /\ calls[2].st = "ok"
    /\ Len(fetches) = 2
    /\ PrefetchStarts(calls[1].frame \div framesPerChunk + 1)

\* ---- C15 ----
\* C15: tier 1 never holds more than l1CacheSizeInChunks entries, and no
\* chunk index twice.
C15_TierOneCapacity ==
    /\ Len(l1Cache) <= l1CacheSizeInChunks
    /\ Cardinality(LRUKeys(l1Cache)) = Len(l1Cache)

\* tier 1 is full and a chunk that a miss resolution had written into it has
\* been evicted
C15_Witness ==
    /\ Len(l1Cache) = l1CacheSizeInChunks
    /\ \E f \in 1 .. Len(fetches) :
          fetches[f].st = "ok" /\ ~LRUHas(l1Cache, fetches[f].chunk)

\* ---- C16 ----
\* the key of the cache whose latest get hit or set is the oldest
OldestUse == CHOOSE k \in lru.cache : \A j \in lru.cache : lruHist.stamp[k] <= lruHist.stamp[j]

\* C16: on an LRUCache of capacity n >= 1, a set of a new key into a full
\* cache evicts exactly the key whose latest get hit or set is the oldest and
\* returns it; any other set evicts nothing; get removes nothing; has changes
\* nothing of the cache.
C16_LruVictim ==
    [][LET op == lruHist'.last.op
           key == lruHist'.last.key
           full == Cardinality(lru.cache) = lru.capacity
       IN /\ (op = "set" /\ key \notin lru.cache /\ full) =>
                /\ lru'.cache = (lru.cache \ {OldestUse}) \cup {key}
                /\ lruHist'.last.evicted =
                      <<[key |-> OldestUse, value |-> lru.value[OldestUse]]>>
          /\ (op = "set" /\ ~(key \notin lru.cache /\ full)) =>
                /\ lru'.cache = lru.cache \cup {key}
                /\ lruHist'.last.evicted = << >>
          /\ op = "get" => lru'.cache = lru.cache
          /\ op = "has" => lru' = lru]_vars

\* a set into a full cache of capacity 2 has just evicted a key while a key
\* inserted before the victim stays in the cache: a get had protected it
C16_Witness ==
    /\ lru.capacity = 2
    /\ lruHist.last.op = "set"
    /\ lruHist.last.evicted # << >>
    /\ \E k \in lru.cache \ {lruHist.last.key} :
          lruHist.born[k] < lruHist.born[lruHist.last.evicted[1].key]

\* ---- C17 ----
\* a payload that is a frame: 44 bytes and a whole number of float32 values
ValidPayload(payload) == Len(payload) >= 44 /\ (Len(payload) - 44) % 4 = 0

\* C17: parseChunkedBuffer, given k complete records whose payloads are valid
\* frames and then nothing or a truncated tail, does not throw and returns
\* exactly the k frames of the payloads, in order.
C17_TruncationTolerated ==
    (/\ codecOut.op = "parseChunkedBuffer"
     /\ codecIn.kind = "container"
     /\ \A i \in 1 .. Len(codecIn.records) : ValidPayload(codecIn.records[i])) =>
        /\ codecOut.ok
        /\ Len(codecOut.frames) = Len(codecIn.records)
        /\ \A i \in 1 .. Len(codecIn.records) :
              /\ codecOut.frames[i].box = WordsFrom(codecIn.records[i], 8, 9)
              /\ Flatten(codecOut.frames[i].coords) =
                    SubSeq(codecIn.records[i], 45, Len(codecIn.records[i]))

\* two different frames were decoded in order from a container that ends in
\* a length prefix declaring more bytes than remain
C17_Witness ==
    /\ codecOut.op = "parseChunkedBuffer"
    /\ codecIn.records = <<ExamplePayload, Zeros(44)>>
    /\ codecIn.tail = Uint32Bytes(256) \o Zeros(44)
    /\ codecOut.ok
    /\ Len(codecOut.frames) = 2
    /\ codecOut.frames[1].box = CountingBox
    /\ codecOut.frames[2].coords = << >>

\* ---- C18 ----
\* C18: decoding a frame payload shorter than 44 bytes throws, whichever
\* decoder is given it, and a container holding a complete record shorter
\* than 44 bytes makes parseChunkedBuffer throw, returning no frame.
C18_ShortPayloadFails ==
    /\ (/\ codecOut.op \in {"parseSingleFrameBuffer", "parseFramesFromBuffer"}
        /\ Len(codecIn.bytes) < 44) => ~codecOut.ok
    /\ (/\ codecOut.op = "parseChunkedBuffer"
        /\ codecIn.kind = "container"
        /\ \E i \in 1 .. Len(codecIn.records) : Len(codecIn.records[i]) < 44) =>
           (~codecOut.ok /\ codecOut.frames = << >>)

\* ---- C19 ----
\* C19: a payload of 44 + 4k bytes decodes to one frame whose box is the nine
\* words at bytes 8..43 and whose coords are the k words from byte 44 on,
\* whatever bytes 0..7 are; an encoded frame decodes to the same box and
\* coords; 44 zero bytes decode to empty coords and a box of nine zero words.
C19_LayoutAndRoundTrip ==
    (/\ codecOut.op \in {"parseSingleFrameBuffer", "parseFramesFromBuffer"}
     /\ ValidPayload(codecIn.bytes)) =>
        /\ codecOut.ok
        /\ Len(codecOut.frames) = 1
        /\ LET frame == codecOut.frames[1]
               k == (Len(codecIn.bytes) - 44) \div 4
           IN /\ Len(frame.box) = 9 /\ Len(frame.coords) = k
              /\ \A i \in 1 .. 9 : \A j \in 1 .. 4 :
                    frame.box[i][j] = codecIn.bytes[8 + 4 * (i - 1) + j]
              /\ \A i \in 1 .. k : \A j \in 1 .. 4 :
                    frame.coords[i][j] = codecIn.bytes[44 + 4 * (i - 1) + j]
              /\ codecIn.kind = "frame" => frame = codecIn.frame[1]
              /\ codecIn.bytes = Zeros(44) =>
                    (frame.coords = << >> /\ frame.box = ZeroBox)

\* the frame with box 1..9 and coords 1.0, 2.0, 3.0, encoded behind a header
\* whose marker is not 1, was decoded
C19_Witness ==
    /\ codecOut.op = "parseFramesFromBuffer"
    /\ codecIn.kind = "frame"
    /\ codecIn.header = <<2, 0, 0, 0>> \o Float32Word(1)
    /\ codecOut.frames =
          <<[box |-> CountingBox,
             coords |-> <<Float32Word(1), Float32Word(2), Float32Word(3)>>]>>

\* ---- C20 ----
\* the frame indexes of chunk c
FrameRange(c) ==
    RangeStart(c, idx.framesPerChunk)
        .. RangeEnd(c, idx.framesPerChunk, idx.frameCount) - 1

\* C20: for a frame count >= 1 and a chunk length >= 1 the frame ranges of
\* the chunks 0 .. ceil(frameCount / framesPerChunk) - 1 are non-empty,
\* pairwise disjoint and cover 0 .. frameCount - 1; a valid frame index lies
\* in the range of its chunk, at its offset from the start of the range, and
\* the offset is smaller than the length of the range.
C20_ChunksPartitionFrames ==
    LET chunks == 0 .. TotalChunksOf(idx.frameCount, idx.framesPerChunk) - 1
    IN /\ \A c \in chunks : FrameRange(c) # {}
       /\ \A c, d \in chunks : c # d => FrameRange(c) \cap FrameRange(d) = {}
       /\ UNION {FrameRange(c) : c \in chunks} = 0 .. idx.frameCount - 1
       /\ idx.frame # Null =>
             /\ idx.chunk \in chunks
             /\ idx.frame \in FrameRange(idx.chunk)
             /\ idx.frame = idx.start + idx.offset
             /\ idx.offset >= 0 /\ idx.offset < idx.end - idx.start
       /\ (idx.frameCount = 250 /\ idx.framesPerChunk = 100 /\ idx.frame = 249) =>
             (idx.chunk = 2 /\ idx.offset = 49)

\* frame 249 of 250 frames in chunks of 100 was located in the short last chunk
C20_Witness ==
    /\ idx.frameCount = 250 /\ idx.framesPerChunk = 100
    /\ idx.frame = 249 /\ idx.chunk = 2 /\ idx.offset = 49
    /\ idx.end - idx.start = 50

\* ---- C21 ----
\* the miss resolutions of a chunk that have not settled
LiveFetches(c) == {f \in 1 .. Len(fetches) : fetches[f].chunk = c /\ ~FetchDone(f)}

\* C21: for every chunk index at most one miss resolution (remote fetch plus
\* tier writes) is in flight, and the pending registry holds an entry for the
\* chunk exactly while one is in flight, naming that resolution.
C21_OneFetchPerChunk ==
    \A c \in Chunks :
        /\ Cardinality(LiveFetches(c)) <= 1
        /\ pendingFetches[c] # 0 <=> LiveFetches(c) # {}
        /\ pendingFetches[c] # 0 => pendingFetches[c] \in LiveFetches(c)

\* a miss resolution of a chunk has settled, a later one for the same chunk is
\* in flight and registered, and a call has joined it
C21_Witness ==
    \E f, g \in 1 .. Len(fetches) :
        /\ f < g
        /\ fetches[f].chunk = fetches[g].chunk
        /\ FetchDone(f) /\ ~FetchDone(g)
        /\ pendingFetches[fetches[g].chunk] = g
        /\ \E k \in 1 .. Len(calls) : calls[k].st = "fetch" /\ calls[k].f = g

\* ---- C22 ----
\* a data-source call that asks for the frame range of an existing chunk
ChunkRangeCall(e) ==
    /\ e.op = "getFrames"
    /\ \E c \in 0 .. CeilDiv(FrameCount, framesPerChunk) - 1 :
          /\ e.start = c * framesPerChunk
          /\ e.end = Min((c + 1) * framesPerChunk, FrameCount)
    /\ 0 <= e.start /\ e.start < e.end /\ e.end <= FrameCount

\* C22: in Chunked mode, every data-source call issued by a step that is not
\* a step of init() is a getFrames call for the frame range of an existing
\* chunk, and every miss resolution started is for an existing chunk; a
\* getFrame in the last chunk starts no prefetch.
C22_RangesInBounds ==
    [][(framesPerChunk # Null /\ inits' = inits) =>
          /\ \A n \in Len(srcLog) + 1 .. Len(srcLog') : ChunkRangeCall(srcLog'[n])
          /\ \A f \in Len(fetches) + 1 .. Len(fetches') :
                fetches'[f].chunk \in 0 .. CeilDiv(FrameCount, framesPerChunk) - 1
          /\ (/\ Len(calls') = Len(calls) + 1
              /\ calls'[Len(calls')].frame \in 0 .. FrameCount - 1
              /\ calls'[Len(calls')].frame \div framesPerChunk =
                    CeilDiv(FrameCount, framesPerChunk) - 1) =>
                 calls'[Len(calls')].pf = 0]_vars

\* a getFrame of the last frame, in the short last chunk, was served by a
\* fetch of that chunk's range and started no prefetch
C22_Witness ==
    /\ framesPerChunk # Null
    /\ FrameCount % framesPerChunk # 0
    /\ \E k \in 1 .. Len(calls) :
          /\ calls[k].frame = FrameCount - 1
          /\ calls[k].st = "ok" /\ calls[k].via = "src"
          /\ calls[k].pf = 0
          /\ srcLog[Len(srcLog)] =
                GetFramesCall((FrameCount \div framesPerChunk) * framesPerChunk, FrameCount)
    /\ \A f \in 1 .. Len(fetches) : fetches[f].origin = "demand"

\* ---- C23 ----
\* C23: a valid Chunked-mode getFrame whose chunk c is in tier 1 resolves in
\* the step of the call with the frame of the cached chunk; after the step c is
\* the head of tier 1 and tier 1 holds the same chunks with the same data; the
\* tier-2 index, the byte counter, the backing store and the store queue are
\* unchanged; the registry entry of c is unchanged and no miss resolution of c
\* is started; the only data-source call and registry entry the step can add
\* are those of the prefetch of chunk c + 1 the same getFrame starts.
C23_TierOneHit ==
    [][LET n == Len(calls')
           c == calls'[n].frame \div framesPerChunk
       IN (/\ n = Len(calls) + 1
           /\ framesPerChunk # Null
           /\ calls'[n].frame \in 0 .. FrameCount - 1
           /\ LRUHas(l1Cache, c)) =>
              /\ calls'[n].st = "ok"
              /\ calls'[n].val = LRUValue(l1Cache, c)[(calls'[n].frame % framesPerChunk) + 1]
              /\ l1Cache'[1] = [key |-> c, value |-> LRUValue(l1Cache, c)]
              /\ Len(l1Cache') = Len(l1Cache)
              /\ \A i \in 1 .. Len(l1Cache) : \E j \in 1 .. Len(l1Cache') :
                    l1Cache'[j] = l1Cache[i]
              /\ UNCHANGED <<l2Cache, l2CurrentSizeInBytes, l2Store, storeQueue>>
              /\ \A d \in Chunks \ {c + 1} : pendingFetches'[d] = pendingFetches[d]
              /\ \A f \in Len(fetches) + 1 .. Len(fetches') :
                    fetches'[f].chunk = c + 1 /\ calls'[n].pf = f
              /\ calls'[n].pf = 0 => (srcLog' = srcLog /\ UNCHANGED pendingFetches)
              /\ \A e \in Len(srcLog) + 1 .. Len(srcLog') :
                    srcLog'[e].start = (c + 1) * framesPerChunk]_vars

\* the second getFrame found its chunk in tier 1 next to another chunk, moved
\* it to the head and, having crossed into it, started a prefetch
C23_Witness ==
    /\ Len(calls) = 2
    /\ calls[2].st = "ok" /\ calls[2].via = "l1" /\ calls[2].f = 0
    /\ calls[2].pf # 0
    /\ Len(l1Cache) = 2
    /\ l1Cache[1].key = calls[2].frame \div framesPerChunk
    /\ calls[2].val = calls[2].frame

\* ---- C24 ----
\* C24: when the store read of a getFrame that found its chunk c in the tier-2
\* index returns the stored chunk, the call resolves with the frame of that
\* chunk; no data-source call is issued and no miss resolution started; c
\* becomes the head of the tier-2 index, which keeps its entries; c becomes
\* the head of tier 1 with the stored data, and when c was absent from tier 1
\* the other entries keep their order, the last one being evicted if tier 1
\* was full; the byte counter and the backing store are unchanged.
C24_TierTwoHitPromotes ==
    [][(/\ storeQueue # << >>
        /\ storeQueue[1].op = "get"
        /\ calls'[storeQueue[1].who].st = "ok") =>
           LET k == storeQueue[1].who
               c == storeQueue[1].key
               node == [key |-> c, value |-> l2Store[c]]
           IN /\ calls'[k].val = l2Store[c][(calls[k].frame % framesPerChunk) + 1]
              /\ srcLog' = srcLog
              /\ UNCHANGED <<fetches, pendingFetches, l2CurrentSizeInBytes, l2Store>>
              /\ l2Cache'[1].key = c
              /\ Len(l2Cache') = Len(l2Cache)
              /\ \A i \in 1 .. Len(l2Cache) : \E j \in 1 .. Len(l2Cache') :
                    l2Cache'[j] = l2Cache[i]
              /\ l1Cache'[1] = node
              /\ ~LRUHas(l1Cache, c) =>
                    l1Cache' = IF Len(l1Cache) = l1CacheSizeInChunks
                               THEN <<node>> \o SubSeq(l1Cache, 1, Len(l1Cache) - 1)
                               ELSE <<node>> \o l1Cache
              /\ LRUHas(l1Cache, c) => LRUKeys(l1Cache') = LRUKeys(l1Cache)]_vars

\* three chunks were fetched and stored, so tier 1 had evicted one; the third
\* getFrame asked for a chunk with no resolution in flight, found it only in
\* tier 2 and was served by the store; the chunk is now the head of both tiers
\* and tier 1 is full
C24_Witness ==
    /\ Len(calls) = 3
    /\ calls[3].st = "ok" /\ calls[3].via = "l2" /\ calls[3].arr = 0
    /\ Len(fetches) = 3
    /\ \A f \in 1 .. Len(fetches) : fetches[f].st = "ok"
    /\ Len(l1Cache) = l1CacheSizeInChunks
    /\ l1Cache[1].key = calls[3].frame \div framesPerChunk
    /\ l2Cache[1].key = calls[3].frame \div framesPerChunk
    /\ calls[3].val = calls[3].frame

\* ---- C25 ----
\* C25: when every data-source call and every store request completes, every
\* getFrame call made is eventually settled, every miss resolution started
\* eventually ends in success or failure and every entry of the pending
\* registry is eventually removed (the client makes finitely many calls and a
\* settled call stays settled, so: from some point on all of them are), and
\* the registry is empty whenever no miss resolution is in flight.
C25_Progress ==
    /\ <>[](/\ \A k \in 1 .. Len(calls) : Settled(k)
            /\ \A f \in 1 .. Len(fetches) : FetchDone(f)
            /\ \A c \in Chunks : pendingFetches[c] = 0)
    /\ []((\A f \in 1 .. Len(fetches) : FetchDone(f)) =>
              \A c \in Chunks : pendingFetches[c] = 0)

\* both getFrame calls are settled, one served by a miss resolution that
\* succeeded and one rejected by a resolution that failed; every resolution
\* has ended and the registry and the store queue are empty
C25_Witness ==
    /\ Len(calls) = MaxCalls
    /\ \A k \in 1 .. Len(calls) : Settled(k)
    /\ \E k \in 1 .. Len(calls) : calls[k].st = "ok" /\ calls[k].via = "src"
    /\ \E k \in 1 .. Len(calls) : calls[k].st = "err" /\ calls[k].ef # 0
    /\ Len(fetches) >= 2
    /\ \A f \in 1 .. Len(fetches) : FetchDone(f)
    /\ \A c \in Chunks : pendingFetches[c] = 0
    /\ storeQueue = << >>

\* ---- C26 ----
\* C26: the byte counter of tier 2 equals the sum of the sizes recorded in the
\* tier-2 index (addChunkToL2 updates the counter and the index in one
\* synchronous segment, so the two are never observed between the updates).
C26_AccountingExact == l2CurrentSizeInBytes = L2IndexBytes

\* ---- C27 ----
\* C27: once an init() call has returned without error, the proxy is in
\* Chunked mode with framesPerChunk set or in Transparent mode, so that
\* getFrame does not fail with the not-initialized error.
C27_InitDoneMeansReady ==
    (\E t \in 1 .. Len(inits) : inits[t] = "done") =>
        /\ ~GetFrameNotInitialized
        /\ isTransparent \/ framesPerChunk # Null

\* ---- C28 ----
\* C28: a getFrame call with a valid index that resolves, resolves to a
\* frame, never to undefined, also when the data source has returned fewer
\* frames than the range asked for and that short chunk was cached.
C28_NeverResolvesToNothing ==
    \A k \in 1 .. Len(calls) :
        (calls[k].st = "ok" /\ calls[k].frame \in 0 .. FrameCount - 1) =>
            calls[k].val # Null

\* ---- C29 ----
\* C29: when a miss resolution fails, every promise that rejects as a result
\* has a rejection handler: no rejection is left unhandled.
C29_EveryFailureObserved ==
    \A f \in 1 .. Len(fetches) :
        fetches[f].st = "err" => fetches[f].unhandled = {}

\* ---- C30 ----
\* the nodes met from a node on by following a link, at most steps of them
RECURSIVE WalkFrom(_, _, _)
WalkFrom(link, node, steps) ==
    IF node = Null \/ steps = 0 THEN << >>
    ELSE <<node>> \o WalkFrom(link, link[node], steps - 1)

Reverse(seq) == [i \in 1 .. Len(seq) |-> seq[Len(seq) + 1 - i]]

\* C30: in every state of an LRUCache, following next from head visits
\* exactly the keys of the Map, each once, and ends at tail; following prev
\* from tail visits them in the reverse order; head has no prev and tail no
\* next; head and tail are both null exactly when the Map is empty.
C30_ListWellFormed ==
    LET forward == WalkFrom(lru.next, lru.head, MaxKey + 1)
        backward == WalkFrom(lru.prev, lru.tail, MaxKey + 1)
    IN /\ Len(forward) = Cardinality(lru.cache)
       /\ {forward[i] : i \in 1 .. Len(forward)} = lru.cache
       /\ forward # << >> => forward[Len(forward)] = lru.tail
       /\ backward = Reverse(forward)
       /\ lru.head # Null => lru.prev[lru.head] = Null
       /\ lru.tail # Null => lru.next[lru.tail] = Null
       /\ lru.head = Null <=> lru.cache = {}
       /\ lru.tail = Null <=> lru.cache = {}

\* a full cache of two nodes out of which a key was evicted earlier; a get hit
\* has just put at the head a node inserted before the latest use of the other
C30_Witness ==
    /\ lru.capacity = 2
    /\ Cardinality(lru.cache) = 2
    /\ \E k \in Keys \ lru.cache : lruHist.born[k] > 0
    /\ lruHist.last.op = "get" /\ lruHist.last.hit
    /\ lru.head = lruHist.last.key
    /\ lruHist.stamp[lru.tail] > lruHist.born[lru.head]
====
